---- MODULE Spec2Model ----
(***************************************************************************)
(* RealmPortal (src/RealmPortal.py): class WoWUIMigrator.                  *)
(*                                                                         *)
(* A string is a sequence of one-character strings, a path is a sequence   *)
(* of names relative to the current directory, and the filesystem is a     *)
(* function from the paths that exist to their nodes.  Path strings are    *)
(* built the way the code builds them (os.path.join, str(Path)), so that   *)
(* startswith, `in` and split(os.sep) are string operations here too.      *)
(***************************************************************************)
EXTENDS Naturals, Integers, Sequences, FiniteSets, TLC

\* ------------------------------------------------------------- bounds

\* The wall clock (seconds) runs from 0 to MaxClock.
MaxClock == 1
\* Environment failures (an OSError raised by a filesystem call) injected per run.
MaxFaults == 1
\* Length of the file contents drawn for the text scenarios.
MaxTextLen == 4

\* ------------------------------------------------------------ strings

LowerSeq == <<"a","b","c","d","e","f","g","h","i","j","k","l","m",
              "n","o","p","q","r","s","t","u","v","w","x","y","z">>
UpperSeq == <<"A","B","C","D","E","F","G","H","I","J","K","L","M",
              "N","O","P","Q","R","S","T","U","V","W","X","Y","Z">>
DigitSeq == <<"0","1","2","3","4","5","6","7","8","9">>

Range(s) == { s[i] : i \in DOMAIN s }

\* str.lower() on one character.
ToLower(c) ==
    IF \E i \in DOMAIN UpperSeq : UpperSeq[i] = c
    THEN LowerSeq[CHOOSE i \in DOMAIN UpperSeq : UpperSeq[i] = c]
    ELSE c

LowerStr(s) == [i \in DOMAIN s |-> ToLower(s[i])]

\* The regular expression class \w.
IsWordChar(c) == c \in Range(LowerSeq) \cup Range(UpperSeq) \cup Range(DigitSeq) \cup {"_"}

\* str(n) for a natural number.
RECURSIVE DecStr(_)
DecStr(n) ==
    IF n < 10 THEN << DigitSeq[n + 1] >>
    ELSE DecStr(n \div 10) \o << DigitSeq[(n % 10) + 1] >>

\* s.startswith(p)
StartsWith(s, p) == Len(p) <= Len(s) /\ SubSeq(s, 1, Len(p)) = p

\* sub in s
Contains(s, sub) ==
    \E i \in 1..(Len(s) - Len(sub) + 1) : SubSeq(s, i, i + Len(sub) - 1) = sub

Reverse(s) == [i \in DOMAIN s |-> s[Len(s) + 1 - i]]

RECURSIVE Flatten(_)
Flatten(ss) == IF ss = <<>> THEN <<>> ELSE Head(ss) \o Flatten(Tail(ss))

Sep == "/"

\* ------------------------------------------------- regular expression

\* \b at the gap before position k of text (1 <= k <= Len(text) + 1).
WordBoundary(text, k) ==
    LET before == k > 1 /\ IsWordChar(text[k - 1])
        after  == k <= Len(text) /\ IsWordChar(text[k])
    IN  before # after

\* The pattern without its \b: re.escape(old_text) alone.
MatchAtNoBoundary(text, old_text, i) ==
    /\ i + Len(old_text) - 1 <= Len(text)
    /\ \A j \in 1..Len(old_text) : ToLower(text[i + j - 1]) = ToLower(old_text[j])

\* rf'\b{re.escape(old_text)}\b' with re.IGNORECASE matches at position i.
MatchAt(text, old_text, i) ==
    /\ i + Len(old_text) - 1 <= Len(text)
    /\ \A j \in 1..Len(old_text) : ToLower(text[i + j - 1]) = ToLower(old_text[j])
    /\ WordBoundary(text, i)
    /\ WordBoundary(text, i + Len(old_text))

\* re.sub(pattern, new_text, content, flags=re.IGNORECASE): leftmost,
\* non-overlapping matches, scanning from position i.  new_text holds no
\* backslash, so it is a literal replacement.
RECURSIVE SubFrom(_, _, _, _)
SubFrom(text, old_text, new_text, i) ==
    IF i > Len(text) THEN <<>>
    ELSE IF MatchAt(text, old_text, i)
         THEN new_text \o SubFrom(text, old_text, new_text, i + Len(old_text))
         ELSE << text[i] >> \o SubFrom(text, old_text, new_text, i + 1)

\* re.sub with count=1: only the first match is replaced.
RECURSIVE SubFirstFrom(_, _, _, _)
SubFirstFrom(text, old_text, new_text, i) ==
    IF i > Len(text) THEN <<>>
    ELSE IF MatchAt(text, old_text, i)
         THEN new_text \o SubSeq(text, i + Len(old_text), Len(text))
         ELSE << text[i] >> \o SubFirstFrom(text, old_text, new_text, i + 1)

ReSubFirstOnly(old_text, new_text, content) == SubFirstFrom(content, old_text, new_text, 1)

ReSub(old_text, new_text, content) == SubFrom(content, old_text, new_text, 1)

\* for old_text, new_text in content_mappings.items(): content = re.sub(...)
RECURSIVE ApplyMappings(_, _)
ApplyMappings(mappings, content) ==
    IF mappings = <<>> THEN content
    ELSE ApplyMappings(Tail(mappings),
                       ReSub(Head(mappings)[1], Head(mappings)[2], content))

\* -------------------------------------------------------------- names

nAccount == <<"A","c","c","o","u","n","t">>
nWTF     == <<"W","T","F">>
nB       == <<"B">>
nBB      == <<"B","B">>
nN       == <<"N">>
nR       == <<"R">>
nT       == <<"T">>
nC       == <<"C">>
nD       == <<"D">>
nRx      == <<"R"," ","x">>
nFLua    == <<"f",".","l","u","a">>
nGDat    == <<"g",".","d","a","t">>
nCWtf    == <<"c",".","w","t","f">>

\* None, and the empty string: both are false in a condition.
None == <<>>

\* A set of extensions that also takes data files for configuration files.
config_extensionsWithDat ==
    { <<".","l","u","a">>, <<".","t","x","t">>, <<".","t","o","c">>,
      <<".","x","m","l">>, <<".","w","t","f">>, <<".","d","a","t">> }

\* self.config_extensions
config_extensions ==
    { <<".","l","u","a">>, <<".","t","x","t">>, <<".","t","o","c">>,
      <<".","x","m","l">>, <<".","w","t","f">> }

\* os.path.splitext(file_name)[1]: from the last dot, leading dots set aside.
SplitExt(file_name) ==
    LET dots  == { i \in DOMAIN file_name : file_name[i] = "." }
        lead  == { i \in DOMAIN file_name : \A j \in 1..i : file_name[j] = "." }
        inner == dots \ lead
    IN  IF inner = {} THEN <<>>
        ELSE LET k == CHOOSE i \in inner : \A j \in inner : j <= i
             IN  SubSeq(file_name, k, Len(file_name))

\* --------------------------------------------------------- filesystem

VARIABLES
    fs,             \* the filesystem: path |-> node, for the paths that exist
    scanRev,        \* the order in which this filesystem lists a directory
    clock,          \* the wall clock, in seconds
    faults          \* environment failures raised so far

DirNode == [kind |-> "dir", data |-> <<>>]
FileNode(content) == [kind |-> "file", data |-> content]

Exists(f, p) == p \in DOMAIN f
IsDir(f, p)  == p \in DOMAIN f /\ f[p].kind = "dir"
IsFile(f, p) == p \in DOMAIN f /\ f[p].kind = "file"

Parent(p)   == IF p = <<>> THEN <<>> ELSE SubSeq(p, 1, Len(p) - 1)
Basename(p) == p[Len(p)]

IsPrefix(p, q) == Len(p) <= Len(q) /\ SubSeq(q, 1, Len(p)) = p
Under(f, p) == { q \in DOMAIN f : IsPrefix(p, q) }
Rest(p, q)  == SubSeq(q, Len(p) + 1, Len(q))

RECURSIVE SetToSeq(_)
SetToSeq(S) ==
    IF S = {} THEN <<>>
    ELSE LET x == CHOOSE y \in S : TRUE IN << x >> \o SetToSeq(S \ {x})

\* os.listdir(p) and os.scandir(p): the names in p, in the filesystem's order.
Listing(f, p) ==
    LET names == { q[Len(q)] : q \in { r \in DOMAIN f : Len(r) = Len(p) + 1 /\ IsPrefix(p, r) } }
    IN  IF scanRev THEN Reverse(SetToSeq(names)) ELSE SetToSeq(names)

ListDirs(f, p)  == SelectSeq(Listing(f, p), LAMBDA n : IsDir(f, Append(p, n)))
ListFiles(f, p) == SelectSeq(Listing(f, p), LAMBDA n : ~IsDir(f, Append(p, n)))

\* os.rename(src, dst) of a whole subtree, dst absent or a file that src replaces.
MoveTree(f, src, dst) ==
    LET moved == Under(f, src)
        gone  == moved \cup Under(f, dst)
        new   == { dst \o Rest(src, q) : q \in moved }
    IN  [q \in ((DOMAIN f \ gone) \cup new) |->
            IF q \in new THEN f[src \o Rest(dst, q)] ELSE f[q]]

\* shutil.copytree(src, dst): the entries of src are listed before dst is made.
CopyTree(f, src, dst) ==
    LET new == { dst \o Rest(src, q) : q \in Under(f, src) }
    IN  [q \in (DOMAIN f \cup new) |->
            IF q \in new THEN f[src \o Rest(dst, q)] ELSE f[q]]

Remove(f, p) == [q \in (DOMAIN f \ {p}) |-> f[q]]

WriteFile(f, p, content) == [f EXCEPT ![p] = FileNode(content)]

\* The state threaded through a sequence of filesystem calls: the filesystem,
\* whether an exception is propagating, and the calls made so far.  The call
\* numbered failAt raises an OSError of the environment (failAt = -1: none).
Raise(st) == [st EXCEPT !.ok = FALSE]
Count(st) == [st EXCEPT !.n = st.n + 1]

\* shutil.move(src, dst)
ShMove(st, src, dst, failAt) ==
    IF ~st.ok THEN st
    ELSE IF st.n = failAt THEN Raise(st)
    ELSE IF ~Exists(st.fs, src) THEN Raise(st)
    ELSE IF IsDir(st.fs, dst)
         THEN LET real_dst == Append(dst, Basename(src))
              IN  IF Exists(st.fs, real_dst) THEN Raise(st)
                  ELSE Count([st EXCEPT !.fs = MoveTree(st.fs, src, real_dst)])
    ELSE IF ~IsDir(st.fs, Parent(dst)) THEN Raise(st)
    ELSE IF IsDir(st.fs, src) /\ Exists(st.fs, dst) THEN Raise(st)
    ELSE Count([st EXCEPT !.fs = MoveTree(st.fs, src, dst)])

\* int(time.time()) in the backup name.
BackupSuffix(t) == <<".","b","a","c","k","u","p","_">> \o DecStr(t)

RECURSIVE MergeDirectories(_, _, _, _, _)
RECURSIVE MergeItems(_, _, _, _, _, _)

\* The loop body that keeps the target's version of a colliding file and
\* leaves the source's where it is.
MergeItemKeepTarget(st, source_dir, target_dir, item, t, failAt) ==
    LET source_item == Append(source_dir, item)
        target_item == Append(target_dir, item)
    IN  IF IsDir(st.fs, source_item)
        THEN IF Exists(st.fs, target_item)
             THEN MergeDirectories(st, source_item, target_item, t, failAt)
             ELSE ShMove(st, source_item, target_item, failAt)
        ELSE IF Exists(st.fs, target_item)
             THEN st
             ELSE ShMove(st, source_item, target_item, failAt)

\* The body of the loop of _merge_directories for one item.
MergeItem(st, source_dir, target_dir, item, t, failAt) ==
    LET source_item == Append(source_dir, item)
        target_item == Append(target_dir, item)
    IN  IF IsDir(st.fs, source_item)
        THEN IF Exists(st.fs, target_item)
             THEN MergeDirectories(st, source_item, target_item, t, failAt)
             ELSE ShMove(st, source_item, target_item, failAt)
        ELSE IF Exists(st.fs, target_item)
             THEN LET backup_name == Append(target_dir, item \o BackupSuffix(t))
                  IN  ShMove(ShMove(st, target_item, backup_name, failAt),
                             source_item, target_item, failAt)
             ELSE ShMove(st, source_item, target_item, failAt)

MergeItems(st, source_dir, target_dir, items, t, failAt) ==
    IF ~st.ok \/ items = <<>> THEN st
    ELSE MergeItems(MergeItem(st, source_dir, target_dir, Head(items), t, failAt),
                    source_dir, target_dir, Tail(items), t, failAt)

\* _merge_directories(source_dir, target_dir)
MergeDirectories(st, source_dir, target_dir, t, failAt) ==
    IF ~st.ok THEN st
    ELSE IF ~IsDir(st.fs, source_dir) THEN Raise(st)
    ELSE LET after == MergeItems(st, source_dir, target_dir,
                                 Listing(st.fs, source_dir), t, failAt)
         IN  IF ~after.ok THEN after
             ELSE IF Listing(after.fs, source_dir) # <<>> THEN after
             ELSE IF after.n = failAt THEN Raise(after)
             ELSE Count([after EXCEPT !.fs = Remove(after.fs, source_dir)])

\* ------------------------------------------------------- the migrator

VARIABLES
    wtf_path,           \* self.wtf_path
    dry_run,            \* self.dry_run
    args,               \* the arguments of migrate
    working_path,       \* self.working_path
    changes_made,       \* self.changes_made
    pc,                 \* where migrate stands
    all_dirs,           \* rename_folders: the directories still to process
    renamed_folders,    \* rename_folders: its result so far
    files,              \* update_file_contents: the files still to visit
    updated_files,      \* update_file_contents: its result so far
    result,             \* what migrate returned ("raised": it raised instead)
    original,           \* the input tree as it was when the program started
    prev,               \* the outcome of the previous run of the program
    rewrites,           \* calls of update_file_contents on this object
    merge_failures      \* rename_folders: the merges that failed (line 149)

vars == << fs, scanRev, clock, faults, wtf_path, dry_run, args, working_path,
           changes_made, pc, all_dirs, renamed_folders, files, updated_files,
           result, original, prev, rewrites, merge_failures >>

\* dict: an insertion-ordered sequence of <<key, value>>.
DictSet(m, k, v) ==
    IF \E i \in DOMAIN m : m[i][1] = k
    THEN [i \in DOMAIN m |-> IF m[i][1] = k THEN << k, v >> ELSE m[i]]
    ELSE Append(m, << k, v >>)

DictGet(m, k, default) ==
    IF \E i \in DOMAIN m : m[i][1] = k
    THEN m[CHOOSE i \in DOMAIN m : m[i][1] = k][2]
    ELSE default

\* get_folder_mappings without its character entry.
FolderMappingsNoChar(a) ==
    LET m1 == IF a.old_account # None /\ a.new_account # None
              THEN DictSet(<<>>, a.old_account, a.new_account) ELSE <<>>
    IN  IF a.old_realm # None /\ a.new_realm # None
        THEN DictSet(m1, a.old_realm, a.new_realm) ELSE m1

\* get_folder_mappings
FolderMappings(a) ==
    LET m1 == IF a.old_account # None /\ a.new_account # None
              THEN DictSet(<<>>, a.old_account, a.new_account) ELSE <<>>
        m2 == IF a.old_realm # None /\ a.new_realm # None
              THEN DictSet(m1, a.old_realm, a.new_realm) ELSE m1
    IN  IF a.old_char # None /\ a.new_char # None
        THEN DictSet(m2, a.old_char, a.new_char) ELSE m2

\* get_content_mappings
ContentMappings(a) ==
    LET m1 == IF a.old_realm # None /\ a.new_realm # None
              THEN DictSet(<<>>, a.old_realm, a.new_realm) ELSE <<>>
        m2 == IF a.old_char # None /\ a.new_char # None
              THEN DictSet(m1, a.old_char, a.new_char) ELSE m1
    IN  IF a.old_account # None /\ a.new_account # None
        THEN DictSet(m2, a.old_account, a.new_account) ELSE m2

\* str(path) of a pathlib.Path relative to the current directory.
StrOf(p) ==
    IF p = <<>> THEN << "." >>
    ELSE Head(p) \o Flatten([i \in 1..(Len(p) - 1) |-> << Sep >> \o p[i + 1]])

\* os.path.join(base, *names)
OsPathJoin(base, names) ==
    base \o Flatten([i \in 1..Len(names) |-> << Sep >> \o names[i]])

\* The string os.walk(top) and os.path.join give for path p at or under top.
PathStr(top, p) == OsPathJoin(StrOf(top), Rest(top, p))

\* len(full_path.split(os.sep))
SplitDepth(s) == Cardinality({ i \in DOMAIN s : s[i] = Sep }) + 1

\* The roots os.walk(top) yields, top-down.
RECURSIVE WalkRoots(_, _)
WalkRoots(f, root) ==
    LET dirs == ListDirs(f, root)
    IN  << root >> \o Flatten([i \in 1..Len(dirs) |-> WalkRoots(f, Append(root, dirs[i]))])

\* The test of lines 114-120: whether rename_folders keeps directory p.
KeepDir(top, p, old_account) ==
    LET full_path    == PathStr(top, p)
        root         == PathStr(top, Parent(p))
        dir_name     == Basename(p)
        account_path == OsPathJoin(StrOf(top), << nAccount, old_account >>)
    IN  \/ old_account = None
        \/ full_path = account_path
        \/ StartsWith(full_path, account_path \o << Sep >>)
        \/ (dir_name = old_account /\ Contains(root, nAccount))

\* The sort without reverse=True: shallowest first.
SortShallowestFirst(top, dirs) ==
    LET depth(p) == SplitDepth(PathStr(top, p))
        depths   == { depth(dirs[i]) : i \in DOMAIN dirs }
        maxd     == IF depths = {} THEN 0 ELSE CHOOSE d \in depths : \A e \in depths : e <= d
    IN  Flatten([k \in 1..maxd |-> SelectSeq(dirs, LAMBDA p : depth(p) = k)])

\* all_dirs.sort(key=lambda x: x[1], reverse=True): a stable sort, deepest first.
SortDeepestFirst(top, dirs) ==
    LET depth(p) == SplitDepth(PathStr(top, p))
        depths   == { depth(dirs[i]) : i \in DOMAIN dirs }
        maxd     == IF depths = {} THEN 0 ELSE CHOOSE d \in depths : \A e \in depths : e <= d
    IN  Flatten([k \in 1..maxd |->
            SelectSeq(dirs, LAMBDA p : depth(p) = maxd + 1 - k)])

\* Lines 108-125 of rename_folders: the directories it will process, in order.
CollectDirs(f, top, old_account) ==
    LET roots == WalkRoots(f, top)
        found == Flatten([i \in 1..Len(roots) |->
                    LET dirs == ListDirs(f, roots[i])
                    IN  [j \in 1..Len(dirs) |-> Append(roots[i], dirs[j])]])
    IN  SortDeepestFirst(top, SelectSeq(found, LAMBDA p : KeepDir(top, p, old_account)))

\* The test of lines 191-200: whether update_file_contents visits the files of root.
KeepRoot(top, root, content_mappings, old_account) ==
    LET rootStr          == PathStr(top, root)
        account_path     == OsPathJoin(StrOf(top), << nAccount, old_account >>)
        new_account      == DictGet(content_mappings, old_account, old_account)
        new_account_path == OsPathJoin(StrOf(top), << nAccount, new_account >>)
    IN  \/ old_account = None
        \/ StartsWith(rootStr, account_path)
        \/ StartsWith(rootStr, new_account_path)
        \/ rootStr = StrOf(top)

\* The files update_file_contents reaches, in the order of os.walk.
CollectFiles(f, top, content_mappings, old_account) ==
    LET roots == SelectSeq(WalkRoots(f, top),
                           LAMBDA r : KeepRoot(top, r, content_mappings, old_account))
    IN  Flatten([i \in 1..Len(roots) |->
            LET names == ListFiles(f, roots[i])
            IN  [j \in 1..Len(names) |-> Append(roots[i], names[j])]])

\* time.strftime("%Y%m%d_%H%M%S"): one string per second.
Timestamp(t) == DecStr(t)

\* copy_path of create_migration_copy
CopyPath(wtf, a, t) ==
    LET realm == a.old_realm \o <<"_","t","o","_">> \o a.new_realm
        char  == IF a.old_char # None /\ a.new_char # None
                 THEN <<"_">> \o a.old_char \o <<"_","t","o","_">> \o a.new_char
                 ELSE <<>>
    IN  Append(Parent(wtf),
               <<"W","T","F","_","m","i","g","r","a","t","e","d","_">>
                   \o realm \o char \o <<"_">> \o Timestamp(t))

\* ------------------------------------------------------------ actions

\* The tree at p, with paths relative to p.
Subtree(f, p) == [q \in { Rest(p, r) : r \in Under(f, p) } |-> f[p \o q]]

NoPrev == [ran |-> FALSE, dry_run |-> FALSE, result |-> "none", renamed |-> 0, updated |-> 0]

\* The fields __init__ sets, and the locals of a migrate not yet started.
FreshObject ==
    /\ changes_made = <<>>
    /\ pc = "main"
    /\ all_dirs = <<>>
    /\ renamed_folders = <<>>
    /\ files = <<>>
    /\ updated_files = <<>>
    /\ result = "none"
    /\ rewrites = 0
    /\ merge_failures = 0

\* The clock advances while the program is about to read it.
Tick ==
    /\ pc \in {"copy", "renaming"}
    /\ clock < MaxClock
    /\ clock' = clock + 1
    /\ UNCHANGED << fs, scanRev, faults, wtf_path, dry_run, args, working_path,
                    changes_made, pc, all_dirs, renamed_folders, files,
                    updated_files, result, original, prev, rewrites,
                    merge_failures >>

\* main, lines 342-346: without both realm names parser.error ends the program
\* (exit status 2) before migrate is called; a name that is None or empty
\* counts as missing.
Main ==
    /\ pc = "main"
    /\ IF args.old_realm = None \/ args.new_realm = None
       THEN pc' = "done" /\ result' = "usage"
       ELSE pc' = "start" /\ result' = result
    /\ UNCHANGED << fs, scanRev, clock, faults, wtf_path, dry_run, args,
                    working_path, changes_made, all_dirs, renamed_folders, files,
                    updated_files, original, prev, rewrites,
                    merge_failures >>

\* The migration without the test of line 253.
MigrateEntryNoCheck ==
    /\ pc = "start"
    /\ pc' = "copy"
    /\ UNCHANGED << fs, scanRev, clock, faults, wtf_path, dry_run, args,
                    working_path, changes_made, all_dirs, renamed_folders, files,
                    updated_files, result, original, prev, rewrites,
                    merge_failures >>

\* migrate, lines 253-255: the input tree must exist.
MigrateEntry ==
    /\ pc = "start"
    /\ IF Exists(fs, wtf_path)
       THEN pc' = "copy" /\ result' = result
       ELSE pc' = "done" /\ result' = "false"
    /\ UNCHANGED << fs, scanRev, clock, faults, wtf_path, dry_run, args,
                    working_path, changes_made, all_dirs, renamed_folders, files,
                    updated_files, original, prev, rewrites,
                    merge_failures >>

\* create_migration_copy without the test of line 53: the copy is made in a
\* dry run too.
CreateMigrationCopyAlways ==
    /\ pc = "copy"
    /\ LET copy_path == CopyPath(wtf_path, args, clock)
       IN  \/ /\ IsDir(fs, wtf_path) /\ ~Exists(fs, copy_path)
              /\ fs' = CopyTree(fs, wtf_path, copy_path)
              /\ working_path' = copy_path
              /\ pc' = "walk"
              /\ UNCHANGED << result, faults >>
           \/ /\ ~IsDir(fs, wtf_path) \/ Exists(fs, copy_path)
              /\ pc' = "done" /\ result' = "raised"
              /\ UNCHANGED << fs, working_path, faults >>
           \/ /\ faults < MaxFaults
              /\ faults' = faults + 1
              /\ pc' = "done" /\ result' = "raised"
              /\ UNCHANGED << fs, working_path >>
    /\ UNCHANGED << scanRev, clock, wtf_path, dry_run, args, changes_made,
                    all_dirs, renamed_folders, files, updated_files, original,
                    prev, rewrites,
                    merge_failures >>

\* create_migration_copy, called at line 258, outside the try of migrate:
\* what shutil.copytree raises leaves migrate as an exception.
CreateMigrationCopy ==
    /\ pc = "copy"
    /\ LET copy_path == CopyPath(wtf_path, args, clock)
       IN  \/ /\ dry_run
              /\ pc' = "walk"
              /\ UNCHANGED << fs, working_path, result, faults >>
           \/ /\ ~dry_run
              /\ IsDir(fs, wtf_path) /\ ~Exists(fs, copy_path)
              /\ fs' = CopyTree(fs, wtf_path, copy_path)
              /\ working_path' = copy_path
              /\ pc' = "walk"
              /\ UNCHANGED << result, faults >>
           \/ /\ ~dry_run
              /\ ~IsDir(fs, wtf_path) \/ Exists(fs, copy_path)
              /\ pc' = "done" /\ result' = "raised"
              /\ UNCHANGED << fs, working_path, faults >>
           \/ /\ ~dry_run
              /\ faults < MaxFaults
              /\ faults' = faults + 1
              /\ pc' = "done" /\ result' = "raised"
              /\ UNCHANGED << fs, working_path >>
    /\ UNCHANGED << scanRev, clock, wtf_path, dry_run, args, changes_made,
                    all_dirs, renamed_folders, files, updated_files, original,
                    prev, rewrites,
                    merge_failures >>

\* rename_folders, lines 105-125: the directories are listed and sorted before
\* any of them is renamed.
SnapshotDirs ==
    /\ pc = "walk"
    /\ all_dirs' = CollectDirs(fs, working_path, args.old_account)
    /\ renamed_folders' = <<>>
    /\ pc' = "renaming"
    /\ UNCHANGED << fs, scanRev, clock, faults, wtf_path, dry_run, args,
                    working_path, changes_made, files, updated_files, result,
                    original, prev, rewrites,
                    merge_failures >>

\* Line 157 without line 158: the pair is returned but not recorded.
RecordFolderListOnly(dir_path, new_path) ==
    /\ renamed_folders' = Append(renamed_folders, << dir_path, new_path >>)
    /\ changes_made' = changes_made

\* Lines 157-158.
RecordFolder(dir_path, new_path) ==
    /\ renamed_folders' = Append(renamed_folders, << dir_path, new_path >>)
    /\ changes_made' = Append(changes_made, << "Folder", dir_path, new_path >>)

\* The calls a fault can hit: those the run without a fault makes.
FaultPoints(n) == IF faults < MaxFaults THEN 0..(n - 1) ELSE {}

\* rename_folders, lines 127-158: one directory of the queue.
RenameStep ==
    /\ pc = "renaming"
    /\ all_dirs # <<>>
    /\ LET dir_path   == Head(all_dirs)
           dir_name   == Basename(dir_path)
           parent_dir == Parent(dir_path)
           new_name   == DictGet(FolderMappings(args), dir_name, None)
           new_path   == Append(parent_dir, new_name)
           start      == [fs |-> fs, ok |-> TRUE, n |-> 0]
           merged(failAt) == MergeDirectories(start, dir_path, new_path, clock, failAt)
       IN  \/ /\ ~(new_name # None /\ new_name # dir_name)
              /\ all_dirs' = Tail(all_dirs)
              /\ UNCHANGED << fs, faults, changes_made, renamed_folders, pc, result,
                              merge_failures >>
           \/ /\ new_name # None /\ new_name # dir_name
              /\ dry_run
              /\ RecordFolder(dir_path, new_path)
              /\ all_dirs' = Tail(all_dirs)
              /\ UNCHANGED << fs, faults, pc, result, merge_failures >>
           \/ /\ new_name # None /\ new_name # dir_name
              /\ ~dry_run
              /\ Exists(fs, new_path)
              /\ \E failAt \in {-1} \cup FaultPoints(merged(-1).n) :
                    LET st == merged(failAt)
                    IN  /\ fs' = st.fs
                        /\ faults' = IF failAt = -1 THEN faults ELSE faults + 1
                        /\ IF st.ok
                           THEN /\ RecordFolder(dir_path, new_path)
                                /\ merge_failures' = merge_failures
                           ELSE /\ merge_failures' = merge_failures + 1
                                /\ UNCHANGED << changes_made, renamed_folders >>
              /\ all_dirs' = Tail(all_dirs)
              /\ UNCHANGED << pc, result >>
           \/ /\ new_name # None /\ new_name # dir_name
              /\ ~dry_run
              /\ ~Exists(fs, new_path)
              /\ Exists(fs, dir_path)
              /\ fs' = MoveTree(fs, dir_path, new_path)
              /\ RecordFolder(dir_path, new_path)
              /\ all_dirs' = Tail(all_dirs)
              /\ UNCHANGED << faults, pc, result, merge_failures >>
           \/ \* os.rename raises: nothing in rename_folders catches it, and the
              \* except of migrate (line 281) returns False.
              /\ new_name # None /\ new_name # dir_name
              /\ ~dry_run
              /\ ~Exists(fs, new_path)
              /\ \/ ~Exists(fs, dir_path) /\ faults' = faults
                 \/ Exists(fs, dir_path) /\ faults < MaxFaults /\ faults' = faults + 1
              /\ pc' = "done" /\ result' = "false"
              /\ UNCHANGED << fs, all_dirs, changes_made, renamed_folders,
                              merge_failures >>
    /\ UNCHANGED << scanRev, clock, wtf_path, dry_run, args, working_path, files,
                    updated_files, original, prev, rewrites >>

\* rename_folders returns (line 160) and update_file_contents starts its walk
\* (line 189).
StartRewrite ==
    /\ pc = "renaming"
    /\ all_dirs = <<>>
    /\ files' = CollectFiles(fs, working_path, ContentMappings(args), args.old_account)
    /\ updated_files' = <<>>
    /\ rewrites' = rewrites + 1
    /\ pc' = "rewriting"
    /\ UNCHANGED << fs, scanRev, clock, faults, wtf_path, dry_run, args,
                    working_path, changes_made, all_dirs, renamed_folders, result,
                    original, prev, merge_failures >>

\* Lines 232-233.
RecordFile(file_path) ==
    /\ updated_files' = Append(updated_files, file_path)
    /\ changes_made' = Append(changes_made, << "Content", file_path >>)

\* update_file_contents without the try of line 210: what a file raises leaves
\* the pass and reaches the except of migrate (line 281).
RewriteStepNoTry ==
    /\ pc = "rewriting"
    /\ files # <<>>
    /\ LET file_path == Head(files)
           file_ext  == LowerStr(SplitExt(Basename(file_path)))
           content   == fs[file_path].data
           rewritten == ApplyMappings(ContentMappings(args), content)
       IN  \/ /\ file_ext \notin config_extensions \/ rewritten = content
              /\ files' = Tail(files)
              /\ UNCHANGED << fs, faults, changes_made, updated_files, pc, result >>
           \/ /\ file_ext \in config_extensions
              /\ rewritten # content
              /\ fs' = IF dry_run THEN fs ELSE WriteFile(fs, file_path, rewritten)
              /\ RecordFile(file_path)
              /\ files' = Tail(files)
              /\ UNCHANGED << faults, pc, result >>
           \/ /\ file_ext \in config_extensions
              /\ faults < MaxFaults
              /\ faults' = faults + 1
              /\ pc' = "done" /\ result' = "false"
              /\ UNCHANGED << fs, files, changes_made, updated_files >>
    /\ UNCHANGED << scanRev, clock, wtf_path, dry_run, args, working_path,
                    all_dirs, renamed_folders, original, prev, rewrites,
                    merge_failures >>

\* update_file_contents, lines 202-236: one file of the walk.
RewriteStep ==
    /\ pc = "rewriting"
    /\ files # <<>>
    /\ LET file_path == Head(files)
           file_ext  == LowerStr(SplitExt(Basename(file_path)))
           content   == fs[file_path].data
           rewritten == ApplyMappings(ContentMappings(args), content)
       IN  \/ /\ file_ext \notin config_extensions
              /\ UNCHANGED << fs, faults, changes_made, updated_files >>
           \/ /\ file_ext \in config_extensions
              /\ rewritten = content
              /\ UNCHANGED << fs, faults, changes_made, updated_files >>
           \/ /\ file_ext \in config_extensions
              /\ rewritten # content
              /\ fs' = IF dry_run THEN fs ELSE WriteFile(fs, file_path, rewritten)
              /\ RecordFile(file_path)
              /\ UNCHANGED faults
           \/ \* open or read raises: caught at line 235, the file is skipped.
              /\ file_ext \in config_extensions
              /\ faults < MaxFaults
              /\ faults' = faults + 1
              /\ UNCHANGED << fs, changes_made, updated_files >>
           \/ \* write raises after open(file_path, 'w') emptied the file.
              /\ file_ext \in config_extensions
              /\ rewritten # content
              /\ ~dry_run
              /\ faults < MaxFaults
              /\ faults' = faults + 1
              /\ fs' = WriteFile(fs, file_path, <<>>)
              /\ UNCHANGED << changes_made, updated_files >>
    /\ files' = Tail(files)
    /\ UNCHANGED << scanRev, clock, wtf_path, dry_run, args, working_path, pc,
                    all_dirs, renamed_folders, result, original, prev, rewrites,
                    merge_failures >>

\* update_file_contents returns (line 238); migrate, if it made the call,
\* returns True (line 279).
FinishRewrite ==
    /\ pc = "rewriting"
    /\ files = <<>>
    /\ pc' = "done"
    /\ result' = "true"
    /\ UNCHANGED << fs, scanRev, clock, faults, wtf_path, dry_run, args,
                    working_path, changes_made, all_dirs, renamed_folders, files,
                    updated_files, original, prev, rewrites,
                    merge_failures >>

\* The caller calls update_file_contents again, with the same mappings, on the
\* object whose migrate returned True.
RewriteAgain ==
    /\ pc = "done"
    /\ result = "true"
    /\ rewrites = 1
    /\ files' = CollectFiles(fs, working_path, ContentMappings(args), args.old_account)
    /\ updated_files' = <<>>
    /\ rewrites' = 2
    /\ pc' = "rewriting"
    /\ UNCHANGED << fs, scanRev, clock, faults, wtf_path, dry_run, args,
                    working_path, changes_made, all_dirs, renamed_folders, result,
                    original, prev, merge_failures >>

\* The program is run again on the same input with the same arguments and the
\* other setting of --dry-run: main builds a new WoWUIMigrator.
RunAgain ==
    /\ pc = "done"
    /\ ~prev.ran
    /\ prev' = [ran |-> TRUE, dry_run |-> dry_run, result |-> result,
                renamed |-> Len(renamed_folders), updated |-> Len(updated_files)]
    /\ dry_run' = ~dry_run
    /\ working_path' = wtf_path
    /\ changes_made' = <<>>
    /\ pc' = "main"
    /\ all_dirs' = <<>>
    /\ renamed_folders' = <<>>
    /\ files' = <<>>
    /\ updated_files' = <<>>
    /\ result' = "none"
    /\ rewrites' = 0
    /\ merge_failures' = 0
    /\ UNCHANGED << fs, scanRev, clock, faults, wtf_path, args, original >>

\* ------------------------------------------------------ initial states

Prefixes(p) == { SubSeq(p, 1, k) : k \in 0..Len(p) }

\* The filesystem that holds, under directory w, the given files (pairs of a
\* path relative to w and a content) and the directories on the way to them.
MkFs(w, fileset) ==
    LET filePaths == { w \o x[1] : x \in fileset }
        dirPaths  == Prefixes(w) \cup UNION { Prefixes(Parent(q)) : q \in filePaths }
    IN  [q \in (dirPaths \cup filePaths) |->
            IF q \in filePaths
            THEN FileNode((CHOOSE x \in fileset : w \o x[1] = q)[2])
            ELSE DirNode]

Args(or, nr, oc, nc, oa, na) ==
    [old_realm |-> or, new_realm |-> nr, old_char |-> oc, new_char |-> nc,
     old_account |-> oa, new_account |-> na]

ArgsRealm      == Args(nR, nT, None, None, None, None)
ArgsSameTarget == Args(nR, nT, nC, nT, None, None)
ArgsNested     == Args(nR, nT, nC, nD, None, None)
ArgsAccount    == Args(nR, nT, None, None, nB, nN)
ArgsScopeOnly  == Args(nR, nT, None, None, nB, None)
ArgsGrow       == Args(nR, nRx, None, None, None, None)
ArgsTwoChars   == Args(<<"r","x">>, nT, None, None, None, None)
ArgsChain      == Args(nR, nT, nT, nD, None, None)
ArgsQuote      == Args(<<"r","'","x">>, nT, None, None, None, None)
ArgsStraddle   == Args(<<"x","'","x">>, <<"x">>, None, None, None, None)
ArgsIdentity   == Args(nR, nR, None, None, None, None)
ArgsNoOldRealm == Args(None, nT, nC, nD, None, None)
ArgsNoNewRealm == Args(nR, None, None, None, None, None)

\* A realm to merge into an existing one, and a character folder beside them.
TreeMerge ==
    { << << nAccount, nB, nR, nFLua >>, <<"R"," ","1">> >>,
      << << nAccount, nB, nT, nFLua >>, <<"R"," ","2">> >>,
      << << nAccount, nB, nC, nFLua >>, <<"R"," ","3">> >>,
      << << nCWtf >>, <<"R">> >> }

\* A character under a realm, and a second account whose name starts with the
\* first one's and which holds a realm and a folder named like the first.
TreeAccounts ==
    { << << nAccount, nB, nR, nC, nFLua >>, <<"R"," ","C">> >>,
      << << nAccount, nB, nGDat >>, <<"R">> >>,
      << << nAccount, nBB, nR, nFLua >>, <<"R">> >>,
      << << nAccount, nBB, nB, nFLua >>, <<"B">> >>,
      << << nCWtf >>, <<"R"," ","B">> >> }

\* A realm to merge into an existing one where a directory meets a file.
TreeClash ==
    { << << nAccount, nB, nR, <<"s">>, nFLua >>, <<"R">> >>,
      << << nAccount, nB, nT, <<"s">> >>, <<"R">> >> }

TextAlphabet == { "R", "r", "x", "'" }
Texts == UNION { [1..n -> TextAlphabet] : n \in 0..MaxTextLen }

\* A realm to merge into an existing one where a file meets a directory.
TreeClashRev ==
    { << << nAccount, nB, nR, <<"s">> >>, <<"R"," ","1">> >>,
      << << nAccount, nB, nT, <<"s">>, nFLua >>, <<"R"," ","2">> >>,
      << << nAccount, nB, nT, nGDat >>, <<"R"," ","3">> >> }

\* Two realms that hold a character folder of the same name.
TreeDeep ==
    { << << nAccount, nB, nR, nC, nFLua >>, <<"R"," ","1">> >>,
      << << nAccount, nB, nR, nC, nGDat >>, <<"R"," ","3">> >>,
      << << nAccount, nB, nT, nC, nFLua >>, <<"R"," ","2">> >> }

\* Two configuration files and one other file in the tree root.
TreeTwoFiles ==
    { << << nCWtf >>, <<"R">> >>,
      << << nFLua >>, <<"r"," ","x">> >>,
      << << <<"G",".","L","U","A">> >>, <<"R">> >>,
      << << nGDat >>, <<"R">> >> }

\* A text in which two occurrences of the key x'x overlap.
TreeStraddle == { << << nCWtf >>, <<"x","'","x","'","x">> >> }

Scenarios ==
    ({ << nWTF >> } \X { TreeMerge } \X { ArgsRealm, ArgsSameTarget, ArgsGrow })
    \cup ({ << nWTF >> } \X { TreeAccounts } \X { ArgsNested, ArgsAccount, ArgsScopeOnly })
    \cup ({ << nWTF >> } \X { TreeClash, TreeClashRev } \X { ArgsRealm })
    \cup ({ << nWTF >> } \X { TreeMerge } \X { ArgsChain })
    \cup ({ << nWTF >> } \X { TreeDeep } \X { ArgsRealm, ArgsNested })
    \cup ({ << nWTF >> } \X { TreeStraddle } \X { ArgsStraddle })
    \cup ({ << nWTF >> } \X { TreeMerge } \X { ArgsIdentity, ArgsNoOldRealm, ArgsNoNewRealm })
    \cup ({ << nWTF >> } \X { TreeTwoFiles } \X { ArgsRealm })
    \cup ({ <<>> } \X { TreeMerge } \X { ArgsRealm })

\* A copy of this second already stands beside the input tree.
TreeTaken ==
    { << << nWTF, nCWtf >>, <<"R">> >>,
      << << <<"W","T","F","_","m","i","g","r","a","t","e","d","_","R","_","t","o","_","T","_","0">>,
            nCWtf >>, <<"R">> >> }

TextScenarios ==
    { << nWTF >> } \X { { << << nCWtf >>, t >> } : t \in Texts }
                   \X { ArgsRealm, ArgsGrow, ArgsTwoChars, ArgsQuote, ArgsIdentity }

InitWith(sc, rev) ==
    /\ wtf_path = sc[1]
    /\ fs = MkFs(sc[1], sc[2])
    /\ args = sc[3]
    /\ scanRev = rev
    /\ clock = 0
    /\ faults = 0
    /\ dry_run \in BOOLEAN
    /\ working_path = wtf_path
    /\ original = Subtree(fs, wtf_path)
    /\ prev = NoPrev
    /\ FreshObject

\* The program started on an input tree that does not exist, or beside a copy
\* a run of this second has left.
InitBare ==
    /\ wtf_path = << nWTF >>
    /\ fs \in { MkFs(<<>>, {}), MkFs(<<>>, TreeTaken) }
    /\ args = ArgsRealm
    /\ scanRev = FALSE
    /\ clock = 0
    /\ faults = 0
    /\ dry_run \in BOOLEAN
    /\ working_path = wtf_path
    /\ original = Subtree(fs, wtf_path)
    /\ prev = NoPrev
    /\ FreshObject

Init ==
    \/ \E sc \in Scenarios : \E rev \in BOOLEAN : InitWith(sc, rev)
    \/ \E sc \in TextScenarios : InitWith(sc, FALSE)
    \/ InitBare

Next ==
    \/ Tick
    \/ Main
    \/ MigrateEntry
    \/ CreateMigrationCopy
    \/ SnapshotDirs
    \/ RenameStep
    \/ StartRewrite
    \/ RewriteStep
    \/ FinishRewrite

\* One run of migrate.
Spec == Init /\ [][Next]_vars

NextAgain == Next \/ RewriteAgain

\* migrate, then a second call of update_file_contents.
SpecAgain == Init /\ [][NextAgain]_vars

NextRerun == Next \/ RunAgain

\* The program run twice, once with --dry-run and once without.
SpecRerun == Init /\ [][NextRerun]_vars

\* ------------------------------------------------------------- claims

\* The contents of the files of a filesystem.
FileContents(f) == { f[p].data : p \in { q \in DOMAIN f : f[q].kind = "file" } }

\* C1: whatever migrate does and however it ends, the input tree holds the
\* same directories, files and contents as when the program started.
C1_OriginalUntouched == Subtree(fs, wtf_path) = original

\* The contents of the files of the working tree.
WorkingContents == FileContents(Subtree(fs, working_path))

\* C2: no step of the rename pass destroys data: every file content in the
\* working tree before the step is still in the working tree after it.
C2_MergeKeepsContents ==
    [][pc = "renaming" => WorkingContents \subseteq WorkingContents']_vars

\* C3: while the rename pass runs, every directory still in the queue exists
\* under the path that was recorded for it before the first rename.
C3_QueuedPathsExist ==
    pc = "renaming" => \A i \in DOMAIN all_dirs : IsDir(fs, all_dirs[i])

\* C3, its case: in a real run a directory and then one of its ancestors have
\* both been renamed, and directories are still queued.
C3_Witness ==
    /\ pc = "renaming" /\ ~dry_run /\ all_dirs # <<>>
    /\ \E i, j \in DOMAIN renamed_folders :
          /\ i < j
          /\ renamed_folders[i][1] # renamed_folders[j][1]
          /\ IsPrefix(renamed_folders[j][1], renamed_folders[i][1])
          /\ ~Exists(fs, renamed_folders[j][1])

\* C4: with a scope account, every directory the rename pass renames or merges
\* is Account/<scope> under the working tree, lies under it, or is named
\* <scope> and sits directly in a folder named Account.
C4_RenamesInScope ==
    args.old_account # None =>
        \A i \in DOMAIN renamed_folders :
            LET p == renamed_folders[i][1]
            IN  \/ IsPrefix(working_path \o << nAccount, args.old_account >>, p)
                \/ (Basename(p) = args.old_account /\ Basename(Parent(p)) = nAccount)

\* C5: migrate returns; it never raises.
C5_NeverRaises == result # "raised"

\* C6: the rename pass is left only when its queue is empty.
C6_PassCompletes == pc \in {"rewriting", "done"} => all_dirs = <<>>

\* C7: a dry run and a real run of the same input, both returning True with
\* no call failing, record as many folder changes and as many updated files.
C7_SameDecisions ==
    (/\ prev.ran /\ prev.result = "true"
     /\ pc = "done" /\ result = "true"
     /\ faults = 0)
        => /\ prev.renamed = Len(renamed_folders)
           /\ prev.updated = Len(updated_files)

\* key occurs in text as a whole word, in any letter case.
OccursIn(key, text) == \E i \in DOMAIN text : MatchAt(text, key, i)

\* No key occurs as a whole word in the replacement value of another key.
NoKeyInOtherValue(m) ==
    \A i, j \in DOMAIN m : i # j => ~OccursIn(m[i][1], m[j][2])

\* No key occurs as a whole word in any replacement value, its own included.
NoKeyInAnyValue(m) ==
    \A i, j \in DOMAIN m : ~OccursIn(m[i][1], m[j][2])

KeysAreWords(m) ==
    \A i \in DOMAIN m : \A k \in DOMAIN m[i][1] : IsWordChar(m[i][1][k])

\* C8 as stated: with no key occurring as a whole word in another key's
\* value, the second call of update_file_contents, on the tree a real run
\* without a failed call has produced, returns an empty list.
C8_SecondRunEmpty ==
    (/\ rewrites = 2 /\ pc = "done"
     /\ ~dry_run /\ faults = 0
     /\ NoKeyInOtherValue(ContentMappings(args)))
        => updated_files = <<>>

\* C8 as amended: in a real run in which no call failed, with keys made of
\* word characters and no key occurring as a whole word in any replacement
\* value, its own included, the second call returns an empty list.
C8_SecondRunEmptyAmended ==
    (/\ rewrites = 2 /\ pc = "done"
     /\ ~dry_run /\ faults = 0
     /\ KeysAreWords(ContentMappings(args))
     /\ NoKeyInAnyValue(ContentMappings(args)))
        => updated_files = <<>>

\* C8, its case: the first call updated a file and the second call is over.
C8_Witness ==
    /\ rewrites = 2 /\ pc = "done"
    /\ ~dry_run /\ faults = 0
    /\ KeysAreWords(ContentMappings(args))
    /\ NoKeyInAnyValue(ContentMappings(args))
    /\ \E i \in DOMAIN changes_made : changes_made[i][1] = "Content"

\* Two characters are the same letter in either case, or the same character.
SameLetter(a, b) ==
    a = b \/ \E i \in DOMAIN LowerSeq : {a, b} = {LowerSeq[i], UpperSeq[i]}

\* A word character stands at position k of text.
WordAt(text, k) == k \in DOMAIN text /\ IsWordChar(text[k])

\* The places where key stands in text delimited by word boundaries: its
\* letters in any case, and on each side a word character meeting a character
\* that is none (or the end of the text).
WholeWordPlaces(text, key) ==
    { i \in 1..(Len(text) - Len(key) + 1) :
        /\ \A j \in DOMAIN key : SameLetter(text[i + j - 1], key[j])
        /\ WordAt(text, i - 1) # WordAt(text, i)
        /\ WordAt(text, i + Len(key) - 1) # WordAt(text, i + Len(key)) }

\* No two of these places overlap (they never do for a key of word characters).
PlacesApart(text, key) ==
    \A i, k \in WholeWordPlaces(text, key) : i < k => i + Len(key) <= k

\* text with every whole-word occurrence of key replaced by value and every
\* other character kept.
WholeWordReplaced(text, key, value) ==
    LET places == WholeWordPlaces(text, key)
    IN  Flatten([i \in DOMAIN text |->
            IF i \in places THEN value
            ELSE IF \E k \in places : k < i /\ i < k + Len(key) THEN <<>>
            ELSE << text[i] >>])

\* The configuration files directly in the input tree: no rename moves them
\* and no scope leaves them out.
RootConfigFiles ==
    { n \in { q[1] : q \in { r \in DOMAIN original : Len(r) = 1 } } :
        /\ original[<< n >>].kind = "file"
        /\ LowerStr(SplitExt(n)) \in config_extensions }

\* C9: after a real run with one mapping key in which no call failed, each
\* configuration file of the tree root (whose whole-word occurrences of the
\* key do not overlap) holds its original text with every occurrence of the
\* key that is delimited by word boundaries, in any letter case, replaced by
\* the new value, and every other character unchanged.
C9_WholeWordSubstitution ==
    (/\ pc = "done" /\ result = "true" /\ rewrites = 1
     /\ ~dry_run /\ faults = 0
     /\ Len(ContentMappings(args)) = 1)
        => \A n \in RootConfigFiles :
              LET text  == original[<< n >>].data
                  key   == ContentMappings(args)[1][1]
                  value == ContentMappings(args)[1][2]
              IN  PlacesApart(text, key) =>
                     fs[Append(working_path, n)].data = WholeWordReplaced(text, key, value)

\* C9, its case: the text Rx'r with key R and value T: the r standing alone
\* was replaced and the R of Rx was not.
C9_Witness ==
    /\ pc = "done" /\ result = "true" /\ rewrites = 1
    /\ ~dry_run /\ faults = 0
    /\ ContentMappings(args) = << << nR, nT >> >>
    /\ << nCWtf >> \in DOMAIN original
    /\ original[<< nCWtf >>].data = <<"R","x","'","r">>
    /\ fs[Append(working_path, nCWtf)].data = <<"R","x","'","T">>

\* C10: with a scope account, every file update_file_contents updates lies
\* directly in the tree root, or under Account/<old-account> or
\* Account/<new-account> of the working tree.
C10_RewritesInScope ==
    args.old_account # None =>
        \A i \in DOMAIN updated_files :
            LET p == updated_files[i]
                new_account == IF args.new_account # None
                               THEN args.new_account ELSE args.old_account
            IN  \/ Parent(p) = working_path
                \/ IsPrefix(working_path \o << nAccount, args.old_account >>, p)
                \/ IsPrefix(working_path \o << nAccount, new_account >>, p)

\* The orders in which the entries of a mapping can be applied.
Orderings(m) ==
    { [i \in DOMAIN m |-> m[q[i]]] :
        q \in { r \in [DOMAIN m -> DOMAIN m] :
                  \A i, j \in DOMAIN m : r[i] = r[j] => i = j } }

\* C11: after a real run in which no call failed, each configuration file of
\* the tree root holds the text that applying the content mapping's pairs to
\* its original text gives in any order of the pairs.
C11_OrderIrrelevant ==
    (/\ pc = "done" /\ result = "true" /\ rewrites = 1
     /\ ~dry_run /\ faults = 0)
        => \A n \in RootConfigFiles :
              \A m \in Orderings(ContentMappings(args)) :
                 fs[Append(working_path, n)].data
                    = ApplyMappings(m, original[<< n >>].data)

\* Every pair given to migrate has its old name equal to its new name.
OnlyIdentityPairs ==
    /\ args.old_realm = args.new_realm
    /\ args.old_char = args.new_char
    /\ args.old_account = args.new_account

\* C12: when every pair is an identity pair, the rename pass renames no
\* directory and the rewrite pass updates no file.
C12_IdentityPairNoOp ==
    (OnlyIdentityPairs /\ pc = "done")
        => /\ renamed_folders = <<>>
           /\ updated_files = <<>>
           /\ changes_made = <<>>

\* The realm pair of the arguments is incomplete.
RealmMissing == args.old_realm = None \/ args.new_realm = None

\* C13: while the input tree does not exist or the realm pair is incomplete,
\* no step creates, renames or writes anything or records a change, the
\* working path stays the input path, and the program ends reporting failure.
C13_FatalPrecondition ==
    [][(~Exists(fs, wtf_path) \/ RealmMissing)
          => /\ fs' = fs
             /\ working_path' = wtf_path
             /\ changes_made' = <<>>
             /\ renamed_folders' = <<>> /\ updated_files' = <<>>
             /\ pc' \in {"start", "done"}
             /\ pc' = "done" => result' \in {"false", "usage"}]_vars

\* C13, its case: migrate has returned False for an input tree that does not
\* exist.
C13_Witness ==
    /\ pc = "done" /\ result = "false"
    /\ ~Exists(fs, wtf_path)
    /\ ~RealmMissing

\* The rewrite pass has treated root file n as a pass without failure does: in
\* a real run the file holds its rewritten text, in a dry run its original
\* text, and it is in the updated-file list exactly when the two differ.
ExactlyProcessed(n) ==
    LET text      == original[<< n >>].data
        rewritten == ApplyMappings(ContentMappings(args), text)
        file_path == Append(working_path, n)
    IN  /\ fs[file_path].data = (IF dry_run THEN text ELSE rewritten)
        /\ (file_path \in Range(updated_files)) <=> (rewritten # text)

\* The configuration files of the tree root the pass did not treat that way.
NotProcessed == { n \in RootConfigFiles : ~ExactlyProcessed(n) }

\* C14: a rewrite pass that was started ends with migrate returning True; no
\* more files than calls have failed were left unprocessed, none of them is in
\* the updated-file list, and every other configuration file of the tree root
\* was processed exactly as in a pass without failure.
C14_PerFileContainment ==
    (pc = "done" /\ rewrites = 1)
        => /\ result = "true"
           /\ Cardinality(NotProcessed) <= faults
           /\ \A n \in NotProcessed :
                 Append(working_path, n) \notin Range(updated_files)

\* C14, its case: one file of the tree root failed and another was updated.
C14_Witness ==
    /\ pc = "done" /\ rewrites = 1 /\ faults = 1
    /\ NotProcessed # {}
    /\ \E n \in RootConfigFiles \ NotProcessed :
          Append(working_path, n) \in Range(updated_files)

\* The (old, new) pairs given to migrate.
GivenPairs ==
    { pr \in { << args.old_realm, args.new_realm >>,
               << args.old_char, args.new_char >>,
               << args.old_account, args.new_account >> } :
        pr[1] # None /\ pr[2] # None }

\* The directories of the input tree whose name is the old name of a pair
\* with a different new name, as paths relative to the tree.
NeedRename ==
    { p \in DOMAIN original :
        /\ p # <<>>
        /\ original[p].kind = "dir"
        /\ \E pr \in GivenPairs : pr[1] = Basename(p) /\ pr[2] # Basename(p) }

\* The old paths of the folder entries of the change record.
FolderEntries ==
    { changes_made[i][2] :
        i \in { k \in DOMAIN changes_made : changes_made[k][1] = "Folder" } }

\* C15: no step of a dry run changes the filesystem or the working path, and
\* when an unscoped dry run has returned True its change record lists every
\* directory of the input tree that a pair renames.
C15_DryRunNoMutation ==
    /\ [][dry_run => (fs' = fs /\ working_path' = wtf_path)]_vars
    /\ []((dry_run /\ pc = "done" /\ result = "true" /\ faults = 0
                   /\ args.old_account = None)
            => FolderEntries = { wtf_path \o p : p \in NeedRename })

\* C15, its case: a dry run has returned True and its change record lists a
\* folder and a file.
C15_Witness ==
    /\ dry_run /\ pc = "done" /\ result = "true"
    /\ FolderEntries # {}
    /\ \E i \in DOMAIN changes_made : changes_made[i][1] = "Content"
    /\ Subtree(fs, wtf_path) = original

\* The extensions the rewrite pass is to recognize.
RecognizedExtensions ==
    { <<".","l","u","a">>, <<".","t","x","t">>, <<".","t","o","c">>,
      <<".","x","m","l">>, <<".","w","t","f">> }

\* The extension of the file at path p, in lower case, is a recognized one.
HasRecognizedExtension(p) ==
    LowerStr(SplitExt(Basename(p))) \in RecognizedExtensions

\* The name of path p carries a backup suffix of a merge.
IsBackupName(p) ==
    \E k \in 1..(Len(Basename(p)) - 7) :
        SubSeq(Basename(p), k, k + 7) = <<".","b","a","c","k","u","p","_">>

\* C16: no step of the rewrite pass touches a file whose extension is not a
\* recognized one, and every path of the updated-file list has a recognized
\* extension.
C16_ExtensionFilter ==
    /\ [][pc = "rewriting"
            => \A p \in DOMAIN fs :
                  (fs[p].kind = "file" /\ ~HasRecognizedExtension(p))
                     => (p \in DOMAIN fs' /\ fs'[p] = fs[p])]_vars
    /\ [](\A i \in DOMAIN updated_files : HasRecognizedExtension(updated_files[i]))

\* C16, its case: a real rewrite pass has updated files and has left, in the
\* working tree, a backup file of a merge that holds the old realm name.
C16_Witness ==
    /\ pc = "done" /\ result = "true" /\ ~dry_run
    /\ updated_files # <<>>
    /\ \E p \in Under(fs, working_path) :
          /\ fs[p].kind = "file" /\ IsBackupName(p)
          /\ OccursIn(args.old_realm, fs[p].data)

\* The postcondition of a merge of directory src into directory dst that
\* took filesystem f to filesystem g in second t: src is gone; every entry that
\* was under src is under dst at the same relative path, as it was under src;
\* and an entry of dst that met no file of src, at its own path or above it,
\* is as it was, unless its path is the backup path of a colliding file.
MergePost(f, g, src, dst, t) ==
    LET collides(r) == Exists(f, src \o r) /\ Exists(f, dst \o r)
        displaced(r) ==
            \E k \in 1..Len(r) : IsFile(f, src \o SubSeq(r, 1, k))
        backup(r) ==
            \E c \in { Rest(src, q) : q \in Under(f, src) \ {src} } :
                /\ IsFile(f, src \o c) /\ collides(c)
                /\ r = Append(Parent(c), Basename(c) \o BackupSuffix(t))
    IN  /\ Under(g, src) = {}
        /\ \A q \in Under(f, src) \ {src} :
              /\ Exists(g, dst \o Rest(src, q))
              /\ g[dst \o Rest(src, q)] = f[q]
        /\ \A q \in Under(f, dst) :
              (~displaced(Rest(dst, q)) /\ ~backup(Rest(dst, q)))
                 => (Exists(g, q) /\ g[q] = f[q])

\* C17: in a real run, a step of the rename pass whose target exists (a merge)
\* removes the source directory exactly when the merge is recorded (it ended
\* without error), and then the postcondition of the merge holds.
C17_MergePostcondition ==
    [][(pc = "renaming" /\ all_dirs # <<>> /\ ~dry_run)
          => LET src == Head(all_dirs)
                 new_name == DictGet(FolderMappings(args), Basename(src), None)
                 dst == Append(Parent(src), new_name)
                 recorded == renamed_folders' # renamed_folders
             IN  (new_name # None /\ new_name # Basename(src)
                    /\ IsDir(fs, src) /\ Exists(fs, dst) /\ all_dirs' # all_dirs)
                   => /\ recorded <=> ~Exists(fs', src)
                      /\ recorded => MergePost(fs, fs', src, dst, clock)]_vars

\* C17, its case: a merge has ended without error that met a colliding
\* subdirectory, a colliding file in it and a child only the source had: the
\* target holds the backup of its own version.
C17_Witness ==
    /\ pc = "renaming" /\ ~dry_run /\ faults = 0
    /\ renamed_folders # <<>>
    /\ LET src == renamed_folders[Len(renamed_folders)][1]
           dst == renamed_folders[Len(renamed_folders)][2]
       IN  /\ ~Exists(fs, src)
           /\ \E d \in Under(fs, dst) :
                 /\ IsDir(fs, d) /\ d # dst
                 /\ \E b, x, y \in Under(fs, d) :
                       /\ IsFile(fs, b) /\ IsBackupName(b)
                       /\ IsFile(fs, x) /\ IsFile(fs, y) /\ x # y
                       /\ ~IsBackupName(x) /\ ~IsBackupName(y)

\* The change record that holds one entry per pair of renamed and, after them,
\* one entry per path of updated, in their order.
RecordOf(renamed, updated) ==
    [i \in 1..Len(renamed) |-> << "Folder", renamed[i][1], renamed[i][2] >>]
        \o [i \in 1..Len(updated) |-> << "Content", updated[i] >>]

\* C18: every step leaves the entries of the change record in place and at
\* most appends to them; the record always holds exactly one entry per pair of
\* the rename pass and per path of the rewrite pass; and a step of a real
\* rename pass that leaves its directory where it was (no rename was due, or
\* the merge failed) adds no entry.
C18_ChangeRecordExact ==
    /\ [][IsPrefix(changes_made, changes_made')]_vars
    /\ [](changes_made = RecordOf(renamed_folders, updated_files))
    /\ [][(pc = "renaming" /\ all_dirs # <<>> /\ all_dirs' # all_dirs
             /\ ~dry_run /\ Exists(fs', Head(all_dirs)))
            => changes_made' = changes_made]_vars

\* C18, its case: a real run has returned True after a merge failed and left
\* its directory behind, another directory was renamed and a file updated.
C18_Witness ==
    /\ pc = "done" /\ result = "true" /\ ~dry_run /\ merge_failures = 1
    /\ FolderEntries # {}
    /\ \E i \in DOMAIN changes_made : changes_made[i][1] = "Content"
    /\ \E p \in Under(fs, working_path) \ {working_path} :
          IsDir(fs, p) /\ Basename(p) = args.old_realm

\* No new name of a pair is the old name of a pair.
NoNewNameIsKey == \A pr, qr \in GivenPairs : pr[2] # qr[1]

\* The directories under the working tree named like the old name of a pair
\* whose new name differs.
KeyNamedDirs ==
    { p \in Under(fs, working_path) \ {working_path} :
        /\ IsDir(fs, p)
        /\ \E pr \in GivenPairs : pr[1] = Basename(p) /\ pr[2] # Basename(p) }

\* C19: after a real rename pass without a scope account in which no call and
\* no merge failed, for pairs of which no new name is an old name, no
\* directory under the working tree is named like the old name of a pair
\* whose new name differs.
C19_RenamePassComplete ==
    (/\ rewrites >= 1
     /\ ~dry_run /\ args.old_account = None
     /\ faults = 0 /\ merge_failures = 0
     /\ NoNewNameIsKey)
        => KeyNamedDirs = {}

\* C19, its case: such a pass is over in which nested directories were
\* renamed and a directory was folded into an existing one by a merge that
\* left a backup file.
C19_Witness ==
    /\ rewrites >= 1
    /\ ~dry_run /\ args.old_account = None
    /\ faults = 0 /\ merge_failures = 0
    /\ NoNewNameIsKey
    /\ Len(renamed_folders) >= 3
    /\ \E i, j \in DOMAIN renamed_folders :
          /\ i < j
          /\ IsPrefix(renamed_folders[j][1], renamed_folders[i][1])
    /\ \E p \in Under(fs, working_path) : IsFile(fs, p) /\ IsBackupName(p)

====
